---- MODULE Spec2Model ----
(***************************************************************************)
(* City dataset generator (scripts/generate_city_datasets.py) and          *)
(* sort-order validator (scripts/validate_city_sorting.py).                *)
(*                                                                         *)
(* A string is a sequence of Unicode code points (Python compares str by   *)
(* code point).  None (a csv field of a short row, a JSON null) is the     *)
(* one-element sequence <<-1>>, which is no string.                        *)
(***************************************************************************)
EXTENDS Integers, Sequences, FiniteSets, TLC

\* ------------------------------------------------------------------ bounds
MaxNameLen == 2     \* longest name handed to normalize_city_name alone
MaxRows    == 3     \* rows of the csv file
MaxLimit   == 2     \* largest value of either slice limit
MaxHot     == 2     \* records of the persisted hot dataset given to the validator
MaxCities  == 3     \* records of the persisted all dataset given to the validator

\* ------------------------------------------------------- strings and None
None == <<-1>>

Unset == <<-2>>     \* a variable no statement has assigned yet

\* Code points the names are built from: ASCII on both sides of every
\* allow-list boundary, the sixteen transliteration-table characters, a
\* precomposed accented letter, a bare combining mark, a letter whose
\* decomposition yields a table character, a singleton decomposition and a
\* letter of an unmapped script.
Alphabet ==
    { 32, 45, 48, 57, 65, 90, 95, 97, 122, 123 }
    \cup { 272, 273, 208, 240, 216, 248, 198, 230, 338, 339, 7838, 223, 222, 254, 321, 322 }
    \cup { 233, 769, 510, 8490, 20013 }

RECURSIVE Concat(_)
\* ''.join(parts)
Concat(parts) ==
    IF parts = <<>> THEN <<>> ELSE Head(parts) \o Concat(Tail(parts))

RECURSIVE StrLess(_, _)
\* s < t on Python str: lexicographic by code point, a proper prefix is less
StrLess(s, t) ==
    IF t = <<>> THEN FALSE
    ELSE IF s = <<>> THEN TRUE
    ELSE IF Head(s) # Head(t) THEN Head(s) < Head(t)
    ELSE StrLess(Tail(s), Tail(t))

StrLeq(s, t) == ~StrLess(t, s)

\* not name: None and the empty string are falsy
Falsy(name) == name = None \/ name = <<>>

\* ------------------------------------------------- unicodedata and str.lower
\* unicodedata.normalize('NFD', .) of one code point
NFDChar(c) ==
    CASE c = 233  -> <<101, 769>>
      [] c = 510  -> <<216, 769>>
      [] c = 8490 -> <<75>>
      [] OTHER    -> <<c>>

\* unicodedata.category(char) == 'Mn'
IsMn(c) == c = 769

\* char.lower()
Lower(c) ==
    CASE c >= 65 /\ c <= 90             -> c + 32
      [] c >= 192 /\ c <= 222 /\ c # 215 -> c + 32
      [] c = 272  -> 273
      [] c = 321  -> 322
      [] c = 338  -> 339
      [] c = 510  -> 511
      [] c = 7838 -> 223
      [] c = 8490 -> 107
      [] OTHER    -> c

\* ------------------------------------ generator's normalize_city_name
\* transliteration_map of generate_city_datasets.py
gen_transliteration_map ==
    (272 :> <<68>>) @@ (273 :> <<100>>) @@
    (208 :> <<68>>) @@ (240 :> <<100>>) @@
    (216 :> <<79>>) @@ (248 :> <<111>>) @@
    (198 :> <<65, 69>>) @@ (230 :> <<97, 101>>) @@
    (338 :> <<79, 69>>) @@ (339 :> <<111, 101>>) @@
    (7838 :> <<83, 83>>) @@ (223 :> <<115, 115>>) @@
    (222 :> <<84, 72>>) @@ (254 :> <<116, 104>>) @@
    (321 :> <<76>>) @@ (322 :> <<108>>)

\* Step 1: the table's value for a table character, the character otherwise
gen_transliterate(name) ==
    Concat([i \in 1..Len(name) |->
              IF name[i] \in DOMAIN gen_transliteration_map
              THEN gen_transliteration_map[name[i]]
              ELSE <<name[i]>>])

\* Step 2: NFD decomposition
gen_nfd(s) == Concat([i \in 1..Len(s) |-> NFDChar(s[i])])

\* A mutant of gen_keep: the letter range has lost its upper bound.
gen_keep_open_range(char) ==
    LET char_lower == Lower(char)
        c == char_lower
    IN  IF IsMn(char) THEN <<>>
        ELSE IF 97 <= c THEN <<char_lower>>
        ELSE IF 48 <= c /\ c <= 57 THEN <<char_lower>>
        ELSE IF char_lower \in {32, 45, 95} THEN <<char_lower>>
        ELSE <<>>

\* Step 3, one iteration: what the loop appends for one character of nfd
gen_keep(char) ==
    LET char_lower == Lower(char)
        c == char_lower
    IN  IF IsMn(char) THEN <<>>
        ELSE IF 97 <= c /\ c <= 122 THEN <<char_lower>>
        ELSE IF 48 <= c /\ c <= 57 THEN <<char_lower>>
        ELSE IF char_lower \in {32, 45, 95} THEN <<char_lower>>
        ELSE <<>>

gen_normalize_city_name(name) ==
    IF Falsy(name) THEN <<>>
    ELSE LET transliterated == gen_transliterate(name)
             nfd == gen_nfd(transliterated)
         IN  Concat([i \in 1..Len(nfd) |-> gen_keep(nfd[i])])

\* ------------------------------------ validator's normalize_city_name
\* A mutant of val_transliteration_map: the copy has lost the thorn entries.
val_transliteration_map_no_thorn ==
    (272 :> <<68>>) @@ (273 :> <<100>>) @@
    (208 :> <<68>>) @@ (240 :> <<100>>) @@
    (216 :> <<79>>) @@ (248 :> <<111>>) @@
    (198 :> <<65, 69>>) @@ (230 :> <<97, 101>>) @@
    (338 :> <<79, 69>>) @@ (339 :> <<111, 101>>) @@
    (7838 :> <<83, 83>>) @@ (223 :> <<115, 115>>) @@
    (321 :> <<76>>) @@ (322 :> <<108>>)

\* transliteration_map of validate_city_sorting.py
val_transliteration_map ==
    (272 :> <<68>>) @@ (273 :> <<100>>) @@
    (208 :> <<68>>) @@ (240 :> <<100>>) @@
    (216 :> <<79>>) @@ (248 :> <<111>>) @@
    (198 :> <<65, 69>>) @@ (230 :> <<97, 101>>) @@
    (338 :> <<79, 69>>) @@ (339 :> <<111, 101>>) @@
    (7838 :> <<83, 83>>) @@ (223 :> <<115, 115>>) @@
    (222 :> <<84, 72>>) @@ (254 :> <<116, 104>>) @@
    (321 :> <<76>>) @@ (322 :> <<108>>)

val_transliterate(name) ==
    Concat([i \in 1..Len(name) |->
              IF name[i] \in DOMAIN val_transliteration_map
              THEN val_transliteration_map[name[i]]
              ELSE <<name[i]>>])

val_nfd(s) == Concat([i \in 1..Len(s) |-> NFDChar(s[i])])

val_keep(char) ==
    LET char_lower == Lower(char)
        c == char_lower
    IN  IF IsMn(char) THEN <<>>
        ELSE IF 97 <= c /\ c <= 122 THEN <<char_lower>>
        ELSE IF 48 <= c /\ c <= 57 THEN <<char_lower>>
        ELSE IF char_lower \in {32, 45, 95} THEN <<char_lower>>
        ELSE <<>>

val_normalize_city_name(name) ==
    IF Falsy(name) THEN <<>>
    ELSE LET transliterated == val_transliterate(name)
             nfd == val_nfd(transliterated)
         IN  Concat([i \in 1..Len(nfd) |-> val_keep(nfd[i])])

\* ================================================================ variables
VARIABLES
    \* normalize_city_name applied on its own
    name, gen_key, val_key, gen_again,
    \* generate_city_datasets.py main()
    gpc, csv_rows, HOT_CITIES_COUNT, ALL_CITIES_COUNT,
    cities, hot_cities, all_cities, hot_file, all_file,
    \* validate_city_sorting.py main()
    vpc, data, valid, error, stats, all_valid, printed, status

nvars == <<name, gen_key, val_key, gen_again>>

gvars == <<gpc, csv_rows, HOT_CITIES_COUNT, ALL_CITIES_COUNT,
           cities, hot_cities, all_cities, hot_file, all_file>>

vvars == <<vpc, data, valid, error, stats, all_valid, printed, status>>

vars == <<nvars, gvars, vvars>>

\* no document read yet
NotLoaded == [load |-> "unread", cities |-> <<>>]

\* the state of a script that is not run
NIdle ==
    /\ name = <<>>
    /\ gen_key = Unset
    /\ val_key = Unset
    /\ gen_again = Unset

GIdle ==
    /\ gpc = "idle"
    /\ csv_rows = <<>>
    /\ HOT_CITIES_COUNT = 0
    /\ ALL_CITIES_COUNT = 0
    /\ cities = <<>>
    /\ hot_cities = <<>>
    /\ all_cities = <<>>
    /\ hot_file = <<>>
    /\ all_file = <<>>

VIdle ==
    /\ vpc = "idle"
    /\ data = NotLoaded
    /\ valid = FALSE
    /\ error = <<>>
    /\ stats = <<>>
    /\ all_valid = TRUE
    /\ printed = <<>>
    /\ status = -1

\* ================================================================ normalize
\* Both scripts' normalize_city_name applied to one name.
RECURSIVE StringsUpTo(_)
StringsUpTo(n) ==
    IF n = 0 THEN { <<>> }
    ELSE LET shorter == StringsUpTo(n - 1)
         IN  shorter \cup { Append(s, c) : s \in { t \in shorter : Len(t) = n - 1 }, c \in Alphabet }

Names == StringsUpTo(MaxNameLen) \cup { None }

NInit ==
    /\ name \in Names
    /\ gen_key = Unset
    /\ val_key = Unset
    /\ gen_again = Unset
    /\ GIdle
    /\ VIdle

\* the generator computes the key of the name
GenNormalize ==
    /\ gen_key = Unset
    /\ gen_key' = gen_normalize_city_name(name)
    /\ UNCHANGED <<name, val_key, gen_again, gvars, vvars>>

\* the validator computes the key of the same name
ValNormalize ==
    /\ val_key = Unset
    /\ val_key' = val_normalize_city_name(name)
    /\ UNCHANGED <<name, gen_key, gen_again, gvars, vvars>>

\* the key is normalized once more
GenNormalizeAgain ==
    /\ gen_key # Unset
    /\ gen_again = Unset
    /\ gen_again' = gen_normalize_city_name(gen_key)
    /\ UNCHANGED <<name, gen_key, val_key, gvars, vvars>>

NNext == GenNormalize \/ ValNormalize \/ GenNormalizeAgain

SpecNormalize == NInit /\ [][NNext]_vars

\* C7: the generator's and the validator's normalize_city_name return the
\* same key for the same name.
C7_CrossPathAgreement ==
    (gen_key # Unset /\ val_key # Unset) => gen_key = val_key

\* both keys computed for a name with a table character and an accent
C7_Witness ==
    /\ gen_key # Unset /\ val_key # Unset
    /\ name = <<222, 233>>
    /\ gen_key = <<116, 104, 101>>

\* C9: normalizing a key again returns the key unchanged.
C9_Idempotent ==
    gen_again # Unset => gen_again = gen_key

\* a key of two letters, from a ligature, normalized again
C9_Witness ==
    /\ gen_again # Unset
    /\ name = <<198>>
    /\ gen_key = <<97, 101>>
    /\ gen_again = <<97, 101>>

\* ================================================================ generator
\* A csv row is the DictReader's dict restricted to the fields the claims are
\* about: city, lat, lng.  A field's text is a TLA+ string; CoordNone is the
\* None DictReader stores for a field a short row lacks; a row without the
\* key "lat" is a row of a file whose header has no lat column.  The
\* population column is taken to parse (it is defaulted, never filtered on).
CoordNone == "<None>"

\* float(text): the value, or the exception raised
ParseFloat(text) ==
    CASE text = "59.33"   -> [raises |-> "", kind |-> "finite", val |-> 5933]
      [] text = "18.07"   -> [raises |-> "", kind |-> "finite", val |-> 1807]
      [] text = "nan"     -> [raises |-> "", kind |-> "nan", val |-> 0]
      [] text = "inf"     -> [raises |-> "", kind |-> "inf", val |-> 0]
      [] text = CoordNone -> [raises |-> "TypeError", kind |-> "", val |-> 0]
      [] OTHER            -> [raises |-> "ValueError", kind |-> "", val |-> 0]

\* row[key]: the field, or KeyError
GetField(row, key) ==
    IF key \in DOMAIN row
    THEN ParseFloat(row[key])
    ELSE [raises |-> "KeyError", kind |-> "", val |-> 0]

\* the try block of the coordinates: lat first, lng only if lat parsed
ParseCoordinates(row) ==
    LET lat == GetField(row, "lat")
        lng == GetField(row, "lng")
    IN  IF lat.raises # "" THEN [raises |-> lat.raises, lat |-> lat, lng |-> lat]
        ELSE [raises |-> lng.raises, lat |-> lat, lng |-> lng]

\* names of the rows: "Z", "e" and "é" (the last two share the key "e")
GenCityNames == { <<90>>, <<101>>, <<233>> }

Rows ==
    { [city |-> n, lat |-> "59.33", lng |-> "18.07"] : n \in GenCityNames }
    \cup { [city |-> <<101>>, lat |-> t, lng |-> "18.07"] : t \in {"nan", "abc"} }
    \cup { [city |-> <<101>>, lat |-> "59.33", lng |-> t] : t \in {"inf", CoordNone} }
    \cup { [city |-> <<101>>, lng |-> "18.07"] }

\* A mutant of sort_key: the raw name is the key.
sort_key_raw(x) == x.name

\* key=lambda x: normalize_city_name(x['name'])
sort_key(x) == gen_normalize_city_name(x.name)

RECURSIVE InsertBeforeEqual(_, _)
\* A mutant of InsertByKey: the record goes in front of the records of equal key.
InsertBeforeEqual(sorted, x) ==
    IF sorted = <<>> THEN <<x>>
    ELSE IF StrLeq(sort_key(x), sort_key(Head(sorted))) THEN <<x>> \o sorted
    ELSE <<Head(sorted)>> \o InsertBeforeEqual(Tail(sorted), x)

RECURSIVE InsertByKey(_, _)
\* list.sort is stable: a record goes behind every record whose key is not greater
InsertByKey(sorted, x) ==
    IF sorted = <<>> THEN <<x>>
    ELSE IF StrLess(sort_key(x), sort_key(Head(sorted))) THEN <<x>> \o sorted
    ELSE <<Head(sorted)>> \o InsertByKey(Tail(sorted), x)

RECURSIVE SortInto(_, _)
SortInto(sorted, rest) ==
    IF rest = <<>> THEN sorted
    ELSE SortInto(InsertByKey(sorted, Head(rest)), Tail(rest))

\* cities.sort(key=...)
SortByKey(list) == SortInto(<<>>, list)

\* A mutant of SliceTo: the last n elements, list[-n:].
SliceFromEnd(list, n) ==
    IF n = 0 THEN list
    ELSE SubSeq(list, IF Len(list) > n THEN Len(list) - n + 1 ELSE 1, Len(list))

\* list[:n] for n >= 0
SliceTo(list, n) ==
    SubSeq(list, 1, IF n < Len(list) THEN n ELSE Len(list))

GInit ==
    /\ gpc = "read"
    /\ csv_rows = <<>>
    /\ HOT_CITIES_COUNT \in 0..MaxLimit
    /\ ALL_CITIES_COUNT \in 0..MaxLimit
    /\ cities = <<>>
    /\ hot_cities = <<>>
    /\ all_cities = <<>>
    /\ hot_file = <<>>
    /\ all_file = <<>>
    /\ NIdle
    /\ VIdle

\* one iteration of "for row in reader": the reader yields the next row of
\* the file (csv_rows is the part of the file read so far)
ReadRow ==
    /\ gpc = "read"
    /\ Len(csv_rows) < MaxRows
    /\ \E row \in Rows :
         LET parsed == ParseCoordinates(row) IN
         /\ csv_rows' = Append(csv_rows, row)
         /\ IF parsed.raises \in {"ValueError", "KeyError"}
            THEN \* continue
                 UNCHANGED <<gpc, cities>>
            ELSE IF parsed.raises # ""
            THEN \* an exception the except clause does not name leaves main
                 /\ gpc' = "crashed"
                 /\ UNCHANGED cities
            ELSE /\ cities' = Append(cities,
                        [name |-> row.city,
                         lat |-> [kind |-> parsed.lat.kind, val |-> parsed.lat.val],
                         lon |-> [kind |-> parsed.lng.kind, val |-> parsed.lng.val]])
                 /\ UNCHANGED gpc
    /\ UNCHANGED <<HOT_CITIES_COUNT, ALL_CITIES_COUNT,
                   hot_cities, all_cities, hot_file, all_file, nvars, vvars>>

\* the reader is exhausted
EndOfFile ==
    /\ gpc = "read"
    /\ gpc' = "sort"
    /\ UNCHANGED <<csv_rows, HOT_CITIES_COUNT, ALL_CITIES_COUNT, cities,
                   hot_cities, all_cities, hot_file, all_file, nvars, vvars>>

\* cities.sort(...) and the two slices
SortAndSlice ==
    /\ gpc = "sort"
    /\ cities' = SortByKey(cities)
    /\ hot_cities' = SliceTo(cities', HOT_CITIES_COUNT)
    /\ all_cities' = SliceTo(cities', ALL_CITIES_COUNT)
    /\ gpc' = "write_hot"
    /\ UNCHANGED <<csv_rows, HOT_CITIES_COUNT, ALL_CITIES_COUNT,
                   hot_file, all_file, nvars, vvars>>

\* json.dump({"cities": hot_cities})
WriteHot ==
    /\ gpc = "write_hot"
    /\ hot_file' = hot_cities
    /\ gpc' = "write_all"
    /\ UNCHANGED <<csv_rows, HOT_CITIES_COUNT, ALL_CITIES_COUNT, cities,
                   hot_cities, all_cities, all_file, nvars, vvars>>

\* json.dump({"cities": all_cities})
WriteAll ==
    /\ gpc = "write_all"
    /\ all_file' = all_cities
    /\ gpc' = "done"
    /\ UNCHANGED <<csv_rows, HOT_CITIES_COUNT, ALL_CITIES_COUNT, cities,
                   hot_cities, all_cities, hot_file, nvars, vvars>>

GNext == ReadRow \/ EndOfFile \/ SortAndSlice \/ WriteHot \/ WriteAll

SpecGenerate == GInit /\ [][GNext]_vars

\* ------------------------------------------------------- generator claims
\* main has sorted and sliced
Emitted == gpc \in {"write_hot", "write_all", "done"}

\* the rows whose coordinates both parse, as city records, in file order
RECURSIVE FilteredRows(_)
FilteredRows(rows) ==
    IF rows = <<>> THEN <<>>
    ELSE LET parsed == ParseCoordinates(Head(rows))
         IN  (IF parsed.raises = ""
              THEN << [name |-> Head(rows).city,
                       lat |-> [kind |-> parsed.lat.kind, val |-> parsed.lat.val],
                       lon |-> [kind |-> parsed.lng.kind, val |-> parsed.lng.val]] >>
              ELSE <<>>) \o FilteredRows(Tail(rows))

KeyOf(record) == gen_normalize_city_name(record.name)

NonDecreasing(list) ==
    \A i \in 1..(Len(list) - 1) : StrLeq(KeyOf(list[i]), KeyOf(list[i + 1]))

IsPrefix(short, long) ==
    /\ Len(short) <= Len(long)
    /\ \A i \in 1..Len(short) : short[i] = long[i]

Count(list, r) == Cardinality({ i \in 1..Len(list) : list[i] = r })

SameRecords(l1, l2) ==
    /\ Len(l1) = Len(l2)
    /\ \A i \in 1..Len(l1) : Count(l1, l1[i]) = Count(l2, l1[i])

WithKey(list, k) == SelectSeq(list, LAMBDA r : KeyOf(r) = k)

\* C1: both emitted sequences, hot and all, are non-decreasing in the
\* normalized name of their records.
C1_OutputsSorted ==
    Emitted =>
        /\ NonDecreasing(hot_cities)
        /\ NonDecreasing(all_cities)
        /\ gpc = "done" => NonDecreasing(hot_file) /\ NonDecreasing(all_file)

\* rows "é", "Z", "e" read in that order and written as "é", "e" (all)
C1_Witness ==
    /\ gpc = "done"
    /\ Len(csv_rows) = 3
    /\ csv_rows[1].city = <<233>> /\ csv_rows[2].city = <<90>> /\ csv_rows[3].city = <<101>>
    /\ Len(all_file) = 2
    /\ all_file[1].name = <<233>> /\ all_file[2].name = <<101>>
    /\ cities[3].name = <<90>>

\* C6: when the hot limit is at most the all limit, the hot output is the
\* first hot-limit records of the all output; with fewer records than the hot
\* limit the hot output holds exactly the records that were loaded.
C6_HotIsPrefixOfAll ==
    (Emitted /\ HOT_CITIES_COUNT <= ALL_CITIES_COUNT) =>
        /\ IsPrefix(hot_cities, all_cities)
        /\ Len(hot_cities) =
              (IF HOT_CITIES_COUNT < Len(all_cities) THEN HOT_CITIES_COUNT ELSE Len(all_cities))
        /\ Len(FilteredRows(csv_rows)) < HOT_CITIES_COUNT =>
              SameRecords(hot_cities, FilteredRows(csv_rows))
        /\ gpc = "done" => hot_file = hot_cities /\ all_file = all_cities

\* three records loaded, limits 1 and 2: the hot file is the first record of
\* the all file, which is cut short itself
C6_Witness ==
    /\ gpc = "done"
    /\ HOT_CITIES_COUNT = 1 /\ ALL_CITIES_COUNT = 2
    /\ Len(cities) = 3
    /\ Len(hot_file) = 1 /\ Len(all_file) = 2
    /\ hot_file[1] = all_file[1]
    /\ all_file[1] # all_file[2]

\* C8: the sort is stable: the records of one key keep, in the sorted list and
\* in both outputs, the order they have among the loaded records.
C8_SortIsStable ==
    Emitted =>
        LET loaded == FilteredRows(csv_rows) IN
        /\ Len(cities) = Len(loaded)
        /\ \A k \in { KeyOf(loaded[i]) : i \in 1..Len(loaded) } :
              /\ WithKey(cities, k) = WithKey(loaded, k)
              /\ IsPrefix(WithKey(all_cities, k), WithKey(loaded, k))
              /\ IsPrefix(WithKey(hot_cities, k), WithKey(loaded, k))

\* "Z", "é", "e" loaded in that order: "é" stays in front of "e"
C8_Witness ==
    /\ gpc = "done"
    /\ Len(csv_rows) = 3
    /\ csv_rows[1].city = <<90>> /\ csv_rows[2].city = <<233>> /\ csv_rows[3].city = <<101>>
    /\ Len(all_file) = 2
    /\ all_file[1].name = <<233>> /\ all_file[2].name = <<101>>

IsFinite(x) == x.kind = "finite"

\* C10: a row whose lat or lng is missing or does not parse as a finite number
\* is left out without an error, so every record of the outputs has a finite
\* lat and a finite lon.
C10_OnlyFiniteCoordinates ==
    /\ \A i \in 1..Len(hot_cities) : IsFinite(hot_cities[i].lat) /\ IsFinite(hot_cities[i].lon)
    /\ \A i \in 1..Len(all_cities) : IsFinite(all_cities[i].lat) /\ IsFinite(all_cities[i].lon)

\* ================================================================ validator
\* A document is what json.load and the format check make of a file: the load
\* raised, or the object has no 'cities' list, or it has one.  A record of the
\* list is a JSON object with or without the key 'name'.
ValCityNames == { <<90>>, <<101>>, <<233>>, <<97>> }

Named(n) == [has_name |-> TRUE, name |-> n]

Nameless == [has_name |-> FALSE, name |-> <<>>]

ValRecords == { Named(n) : n \in ValCityNames } \cup { Nameless }

RECURSIVE RecordSeqs(_)
RecordSeqs(n) ==
    IF n = 0 THEN { <<>> }
    ELSE LET shorter == RecordSeqs(n - 1)
         IN  shorter \cup { Append(s, r) : s \in { t \in shorter : Len(t) = n - 1 }, r \in ValRecords }

Documents ==
    { [load |-> "error", cities |-> <<>>], [load |-> "no_cities", cities |-> <<>>] }
    \cup { [load |-> "ok", cities |-> cs] : cs \in RecordSeqs(MaxCities) }

\* the hot dataset is the shorter of the two
HotDocuments == { doc \in Documents : Len(doc.cities) <= MaxHot }

\* f"  City at index {i} missing 'name' field"
MissingNameEntry(i) ==
    [msg |-> "missing 'name' field", index |-> i,
     previous |-> <<>>, previous_key |-> <<>>, current |-> <<>>, current_key |-> <<>>]

\* f"  Sorting violation at index {i}: Previous: ... Current: ..."
ViolationEntry(i, prev_city, prev_normalized, city, normalized) ==
    [msg |-> "Sorting violation", index |-> i,
     previous |-> prev_city.name, previous_key |-> prev_normalized,
     current |-> city.name, current_key |-> normalized]

\* a message returned without entering the loop
TopLevelError(text) ==
    [msg |-> text, index |-> -1,
     previous |-> <<>>, previous_key |-> <<>>, current |-> <<>>, current_key |-> <<>>]

NoPrev == [set |-> FALSE, normalized |-> <<>>, city |-> Nameless]

RECURSIVE CheckLoopStopAtFirst(_, _, _, _)
\* A mutant of CheckLoop: the loop breaks at the first sorting violation.
CheckLoopStopAtFirst(cs, i, prev, errors) ==
    IF i > Len(cs) THEN errors
    ELSE LET city == cs[i] IN
         IF ~city.has_name
         THEN CheckLoopStopAtFirst(cs, i + 1, prev, Append(errors, MissingNameEntry(i - 1)))
         ELSE LET normalized == val_normalize_city_name(city.name) IN
              IF prev.set /\ StrLess(normalized, prev.normalized)
              THEN Append(errors, ViolationEntry(i - 1, prev.city, prev.normalized, city, normalized))
              ELSE CheckLoopStopAtFirst(cs, i + 1,
                       [set |-> TRUE, normalized |-> normalized, city |-> city], errors)

RECURSIVE CheckLoopAbortOnMissing(_, _, _, _)
\* A mutant of CheckLoop: a record without a name ends the loop with that one error.
CheckLoopAbortOnMissing(cs, i, prev, errors) ==
    IF i > Len(cs) THEN errors
    ELSE LET city == cs[i] IN
         IF ~city.has_name
         THEN << MissingNameEntry(i - 1) >>
         ELSE LET normalized == val_normalize_city_name(city.name) IN
              CheckLoopAbortOnMissing(cs, i + 1,
                  [set |-> TRUE, normalized |-> normalized, city |-> city],
                  IF prev.set /\ StrLess(normalized, prev.normalized)
                  THEN Append(errors, ViolationEntry(i - 1, prev.city, prev.normalized, city, normalized))
                  ELSE errors)

RECURSIVE CheckLoop(_, _, _, _)
\* "for i, city in enumerate(cities)" from the i-th record (1-based here,
\* reported 0-based) with the loop's prev_normalized/prev_city and errors
CheckLoop(cs, i, prev, errors) ==
    IF i > Len(cs) THEN errors
    ELSE LET city == cs[i] IN
         IF ~city.has_name
         THEN \* append and continue: prev_* keep their values
              CheckLoop(cs, i + 1, prev, Append(errors, MissingNameEntry(i - 1)))
         ELSE LET normalized == val_normalize_city_name(city.name) IN
              CheckLoop(cs, i + 1,
                  [set |-> TRUE, normalized |-> normalized, city |-> city],
                  IF prev.set /\ StrLess(normalized, prev.normalized)
                  THEN Append(errors, ViolationEntry(i - 1, prev.city, prev.normalized, city, normalized))
                  ELSE errors)

\* A mutant of validate_sorting: the empty-array check is missing.
validate_sorting_no_empty_check(doc) ==
    IF doc.load = "error"
    THEN [valid |-> FALSE, error |-> << TopLevelError("Failed to load JSON") >>, stats |-> <<>>]
    ELSE IF doc.load = "no_cities"
    THEN [valid |-> FALSE,
          error |-> << TopLevelError("Invalid JSON format: missing 'cities' array") >>,
          stats |-> <<>>]
    ELSE LET cs == doc.cities
             errors == CheckLoop(cs, 1, NoPrev, <<>>)
         IN  IF errors # <<>>
             THEN [valid |-> FALSE, error |-> errors, stats |-> <<>>]
             ELSE [valid |-> TRUE, error |-> <<>>, stats |-> << [total |-> Len(cs)] >>]

\* validate_sorting(filepath): (is_valid, error_message, stats).  The message
\* is the list of entries it joins; None is the empty sequence.
validate_sorting(doc) ==
    IF doc.load = "error"
    THEN [valid |-> FALSE, error |-> << TopLevelError("Failed to load JSON") >>, stats |-> <<>>]
    ELSE IF doc.load = "no_cities"
    THEN [valid |-> FALSE,
          error |-> << TopLevelError("Invalid JSON format: missing 'cities' array") >>,
          stats |-> <<>>]
    ELSE LET cs == doc.cities IN
         IF Len(cs) = 0
         THEN [valid |-> FALSE, error |-> << TopLevelError("Empty cities array") >>, stats |-> <<>>]
         ELSE LET errors == CheckLoop(cs, 1, NoPrev, <<>>) IN
              IF errors # <<>>
              THEN [valid |-> FALSE, error |-> errors, stats |-> <<>>]
              ELSE [valid |-> TRUE, error |-> <<>>,
                    stats |-> << [total |-> Len(cs), first |-> cs[1].name,
                                  last |-> cs[Len(cs)].name] >>]

\* what main prints for one result
Verdict(result) ==
    IF result.valid
    THEN [line |-> "VALID - Properly sorted", error |-> <<>>]
    ELSE [line |-> "INVALID - Sorting errors detected:", error |-> result.error]

VInit ==
    /\ vpc = "hot"
    /\ data = NotLoaded
    /\ valid = FALSE
    /\ error = <<>>
    /\ stats = <<>>
    /\ all_valid = TRUE
    /\ printed = <<>>
    /\ status = -1
    /\ NIdle
    /\ GIdle

\* validate_sorting(hot_cities_path) and the branch on its result
ValidateHot ==
    /\ vpc = "hot"
    /\ \E doc \in HotDocuments :
         LET result == validate_sorting(doc) IN
         /\ data' = doc
         /\ valid' = result.valid
         /\ error' = result.error
         /\ stats' = result.stats
         /\ printed' = Append(printed, Verdict(result))
         /\ all_valid' = (IF result.valid THEN all_valid ELSE FALSE)
    /\ vpc' = "all"
    /\ UNCHANGED <<status, nvars, gvars>>

\* A mutant of ValidateAll: the failure branch does not clear all_valid.
ValidateAllKeepsFlag ==
    /\ vpc = "all"
    /\ \E doc \in Documents :
         LET result == validate_sorting(doc) IN
         /\ data' = doc
         /\ valid' = result.valid
         /\ error' = result.error
         /\ stats' = result.stats
         /\ printed' = Append(printed, Verdict(result))
         /\ all_valid' = all_valid
    /\ vpc' = "exit"
    /\ UNCHANGED <<status, nvars, gvars>>

\* validate_sorting(all_cities_path) and the branch on its result
ValidateAll ==
    /\ vpc = "all"
    /\ \E doc \in Documents :
         LET result == validate_sorting(doc) IN
         /\ data' = doc
         /\ valid' = result.valid
         /\ error' = result.error
         /\ stats' = result.stats
         /\ printed' = Append(printed, Verdict(result))
         /\ all_valid' = (IF result.valid THEN all_valid ELSE FALSE)
    /\ vpc' = "exit"
    /\ UNCHANGED <<status, nvars, gvars>>

\* return 0 or 1, handed to sys.exit
Exit ==
    /\ vpc = "exit"
    /\ status' = (IF all_valid THEN 0 ELSE 1)
    /\ vpc' = "done"
    /\ UNCHANGED <<data, valid, error, stats, all_valid, printed, nvars, gvars>>

VNext == ValidateHot \/ ValidateAll \/ Exit

SpecValidate == VInit /\ [][VNext]_vars

\* ------------------------------------------------------- validator claims
\* validate_sorting has returned for the document in data
Validated == vpc \in {"all", "exit", "done"}

RecKey(r) == val_normalize_city_name(r.name)

AllNamed(cs) == \A i \in 1..Len(cs) : cs[i].has_name

\* the 1-based positions whose key is less than the key just before
OutOfOrder(cs) == { i \in 2..Len(cs) : StrLess(RecKey(cs[i]), RecKey(cs[i - 1])) }

SortedByKey(cs) == \A i \in 2..Len(cs) : StrLeq(RecKey(cs[i - 1]), RecKey(cs[i]))

SwapAt(cs, j) ==
    [i \in 1..Len(cs) |-> IF i = j THEN cs[j + 1] ELSE IF i = j + 1 THEN cs[j] ELSE cs[i]]

Increasing(entries) ==
    \A j \in 1..(Len(entries) - 1) : entries[j].index < entries[j + 1].index

\* C2: the validator returns valid exactly when the document loads, its list
\* is not empty, every record has a name and no record's key is less than the
\* key of the record before it.
C2_ValidIff ==
    Validated =>
        (valid <=> /\ data.load = "ok"
                   /\ Len(data.cities) > 0
                   /\ AllNamed(data.cities)
                   /\ OutOfOrder(data.cities) = {})

\* "a", "é", "e" are reported valid, the two equal keys included
C2_Witness ==
    /\ Validated
    /\ valid
    /\ data.cities = << Named(<<97>>), Named(<<233>>), Named(<<101>>) >>
    /\ stats = << [total |-> 3, first |-> <<97>>, last |-> <<101>>] >>

\* C3: for a non-empty list of named records the failure report holds exactly
\* one violation per position whose key is less than the key before it, in
\* increasing index order, each with the index, both names and both keys; a
\* sorted list with one adjacent pair of distinct keys swapped gives exactly
\* one violation, at the second position of the pair.
C3_EveryViolationReported ==
    (Validated /\ data.load = "ok" /\ Len(data.cities) > 0 /\ AllNamed(data.cities)) =>
        LET cs == data.cities IN
        /\ Len(error) = Cardinality(OutOfOrder(cs))
        /\ Increasing(error)
        /\ \A j \in 1..Len(error) :
              LET i == error[j].index + 1 IN
              /\ i \in OutOfOrder(cs)
              /\ error[j].msg = "Sorting violation"
              /\ error[j].previous = cs[i - 1].name
              /\ error[j].previous_key = RecKey(cs[i - 1])
              /\ error[j].current = cs[i].name
              /\ error[j].current_key = RecKey(cs[i])
        /\ \A j \in 1..(Len(cs) - 1) :
              (SortedByKey(SwapAt(cs, j)) /\ RecKey(cs[j]) # RecKey(cs[j + 1])) =>
                  (~valid /\ Len(error) = 1 /\ error[1].index = j)

\* "Z", "e", "a": a violation at index 1 and another at index 2
C3_Witness ==
    /\ Validated
    /\ data.cities = << Named(<<90>>), Named(<<101>>), Named(<<97>>) >>
    /\ Len(error) = 2
    /\ error[1].index = 1 /\ error[2].index = 2
    /\ error[2].previous_key = <<101>> /\ error[2].current_key = <<97>>

\* the original reading of C4: a list that is empty or has a nameless record
\* is failed with one top-level error, and validation stops at the defect
C4_StructuralDefectIsOneHardError ==
    (Validated /\ data.load = "ok" /\ (Len(data.cities) = 0 \/ ~AllNamed(data.cities))) =>
        /\ ~valid
        /\ Len(error) = 1
        /\ error[1].msg # "Sorting violation"

\* the nearest named record in front of position i, 0 if there is none
PrevNamed(cs, i) ==
    LET before == { j \in 1..(i - 1) : cs[j].has_name }
    IN  IF before = {} THEN 0 ELSE CHOOSE j \in before : \A k \in before : k <= j

\* positions the loop reports: a nameless record, or a named record whose key
\* is less than the key of the nearest named record in front of it
Reported(cs) ==
    { i \in 1..Len(cs) :
        \/ ~cs[i].has_name
        \/ /\ PrevNamed(cs, i) # 0
           /\ StrLess(RecKey(cs[i]), RecKey(cs[PrevNamed(cs, i)])) }

\* C4 (amended): an empty list is failed at once with the single error "Empty
\* cities array".  A nameless record does not stop validation: it is one entry
\* of the same error list as the sorting violations, the loop goes on with the
\* next record comparing against the nearest named record in front, and the
\* result is invalid with one entry per nameless record and per out-of-order
\* named record, in index order.
C4_MissingNameIsListEntry ==
    (Validated /\ data.load = "ok") =>
        LET cs == data.cities IN
        /\ Len(cs) = 0 => (~valid /\ error = << TopLevelError("Empty cities array") >>)
        /\ (Len(cs) > 0 /\ ~AllNamed(cs)) =>
              /\ ~valid
              /\ stats = <<>>
              /\ Len(error) = Cardinality(Reported(cs))
              /\ Increasing(error)
              /\ \A j \in 1..Len(error) :
                    LET i == error[j].index + 1 IN
                    /\ i \in Reported(cs)
                    /\ IF cs[i].has_name
                       THEN error[j] = ViolationEntry(i - 1, cs[PrevNamed(cs, i)],
                                           RecKey(cs[PrevNamed(cs, i)]), cs[i], RecKey(cs[i]))
                       ELSE error[j] = MissingNameEntry(i - 1)

\* "Z", a nameless record, "e": the missing name at index 1 and the violation
\* of "e" against "Z" at index 2 are entries of one list
C4_Witness ==
    /\ Validated
    /\ data.cities = << Named(<<90>>), Nameless, Named(<<101>>) >>
    /\ Len(error) = 2
    /\ error[1] = MissingNameEntry(1)
    /\ error[2].msg = "Sorting violation" /\ error[2].index = 2
    /\ error[2].previous = <<90>>

====
